---- MODULE Spec2Model ----
(***************************************************************************)
(* Button state machine module (Btn_SM_Module.c / Btn_SM_Module.h).        *)
(*                                                                         *)
(* The model holds the module's static data (the registry of parameter     *)
(* pointers and running states, the two registered functions), the         *)
(* T_BTN_PARA objects the registry points to (the caller's and those of    *)
(* Btn_SM_Easy_Init), the caller's T_BTN_RESULT array, and the value of    *)
(* the free running 16-bit time source.  One action per API function.      *)
(* The level source is an input of Btn_Channel_Process.  Two more          *)
(* variables record the calls: the last call of the API, and the history   *)
(* of the polls of one channel.                                            *)
(***************************************************************************)
EXTENDS Integers, Sequences, FiniteSets, TLC

(***************************************************************************)
(* Program constants (Btn_SM_Module.h, Btn_SM_Config.h)                    *)
(***************************************************************************)
MAX_BTN_CH            == 3
BTN_STATE_NUM         == 13
BTN_TRG_NUM           == 4

BTN_PRESS_EVT         == 0
BTN_S_RELEASE_EVT     == 1
BTN_L_RELEASE_EVT     == 2
BTN_PRESSED_EVT       == 3
BTN_LONG_PRESSED_EVT  == 4
BTN_S_RELEASED_EVT    == 5
BTN_L_RELEASED_EVT    == 6
BTN_PRESS_PRE_ST      == 7
BTN_SHORT_RELEASE_ST  == 8
BTN_LONG_RELEASE_ST   == 9
BTN_IDLE_ST           == 10
BTN_PRESS_AFT_ST      == 11
BTN_HOLDING_ST        == 12
BTN_NONE_EVT          == 13
BTN_DIS_ST            == 14

BTN_GO_BACK_OFFSET    == 3
BTN_TM_TRG_EVT_OFFSET == 2

SUCCESS               == 0
BTN_ERROR             == 255
NULL                  == 0

\* what u8Ret holds when a call did not return: no uint8 value
TRAP                  == 256

BTN_FUNC_ENABLE       == 1
BTN_FUNC_DISABLE      == 0
BTN_NORMAL_0          == 0
BTN_NORMAL_1          == 1
BTN_STATE_0           == 0
BTN_STATE_1           == 1

\* uint16 is "unsigned short int": the time source counts modulo 2^16
UINT16_MOD            == 65536

\* the parameters of the demo (Btn_SM_Demo.c main)
DEMO_DEBOUNCE_TM      == 50
DEMO_LONG_PRESS_TM    == 1000

\* the parameters Btn_SM_Easy_Init gives every channel
EASY_DEBOUNCE_TM      == 50
EASY_LONG_PRESS_TM    == 1000

(***************************************************************************)
(* Bounds of the model                                                     *)
(***************************************************************************)
MaxDebounce == 2      \* the non-zero debounce time of the checked channels
MaxLongPress == 3     \* the non-zero long-press time of the checked channels
MaxStep     == 2      \* the time source advances by 1..MaxStep between calls
MaxElapsed  == 7      \* total time a behaviour covers
WrapLead    == 2      \* a behaviour starts WrapLead ticks before the rollover
ErrElapsed  == 1      \* total time a behaviour with calls of every kind covers
MaxFn       == 2      \* distinct functions the caller passes as time or level source
PairElapsed == 3      \* total time a behaviour with two polled channels covers

Chs     == 1 .. MAX_BTN_CH
ParaIds == {1}        \* the caller's T_BTN_PARA objects (the demo's main has one)
Trk     == 1          \* the first channel of the caller's polling loop; the history follows it
Sibling == Trk + 1    \* the next channel of that loop

\* function pointers: NULL and the addresses of MaxFn functions
FirstFn == NULL + 1
Fns     == FirstFn .. (FirstFn + MaxFn - 1)

\* &(s_atBtnPara[u8Idx]) of Btn_SM_Easy_Init: the objects after the caller's
s_atBtnPara(u8Idx) == Cardinality(ParaIds) + 1 + u8Idx
EasyIds == {s_atBtnPara(u8Idx) : u8Idx \in 0 .. (MAX_BTN_CH - 1)}

DebounceTms  == {0, MaxDebounce}
LongPressTms == {0, MaxLongPress}
NormalSts    == {BTN_NORMAL_0, BTN_NORMAL_1}
Levels       == {BTN_STATE_0, BTN_STATE_1, BTN_ERROR}
StartTm      == UINT16_MOD - WrapLead
Steps        == 1 .. MaxStep
\* channel numbers the caller passes: below the range, two channels, above it
AnyChs       == {0, Trk, Sibling, MAX_BTN_CH + 1}
PollChs      == {0, Trk, MAX_BTN_CH + 1}

\* the scenario of the specification's section 8 (five polls)
DemoTm       == <<0, 60, 1100, 1150, 1210>>
DemoLvl      == <<1, 1, 1, 0, 0>>
DemoElapsed  == DemoTm[Len(DemoTm)]

VARIABLES
    sg_aptBtnPara,   \* [Chs -> ParaIds \cup {NULL}]  parameter interface
    sg_atBtnSt,      \* [Chs -> T_BTN_ST]             running status
    sg_pfGetTm,      \* Fns \cup {NULL}               function to get general time
    sg_pfGetBtnSt,   \* Fns \cup {NULL}               function to get button state
    tBtnPara,        \* [ParaIds \cup EasyIds -> T_BTN_PARA]  the caller's parameter
                     \* objects and the s_atBtnPara array of Btn_SM_Easy_Init
    sg_atBtn,        \* [Chs -> T_BTN_RESULT]         the caller's result array
    u8Ret,           \* return value of the last call that returns one
    tm,              \* value the time source returns now
    elapsed,         \* total time since the start of the behaviour
    intBits,         \* width of int of the build (16 or 32)
    call,            \* the last call of the API: [op, ch, arg]; arg of a poll is
                     \* the element of sg_aptBtnPara the call loaded
    h                \* history of the calls made for channel Trk

vars == <<sg_aptBtnPara, sg_atBtnSt, sg_pfGetTm, sg_pfGetBtnSt, tBtnPara, sg_atBtn, u8Ret,
          tm, elapsed, intBits, call, h>>

(***************************************************************************)
(* State transition table: row = state code + 1, column = situation + 1    *)
(***************************************************************************)
cg_aau8StateMachine ==
    << <<BTN_PRESS_PRE_ST    , BTN_PRESS_PRE_ST    , BTN_PRESS_PRE_ST    , BTN_PRESS_PRE_ST    >>,
       <<BTN_SHORT_RELEASE_ST, BTN_SHORT_RELEASE_ST, BTN_SHORT_RELEASE_ST, BTN_SHORT_RELEASE_ST>>,
       <<BTN_LONG_RELEASE_ST , BTN_LONG_RELEASE_ST , BTN_LONG_RELEASE_ST , BTN_LONG_RELEASE_ST >>,
       <<BTN_PRESS_AFT_ST    , BTN_PRESS_AFT_ST    , BTN_PRESS_AFT_ST    , BTN_PRESS_AFT_ST    >>,
       <<BTN_HOLDING_ST      , BTN_HOLDING_ST      , BTN_HOLDING_ST      , BTN_HOLDING_ST      >>,
       <<BTN_IDLE_ST         , BTN_IDLE_ST         , BTN_IDLE_ST         , BTN_IDLE_ST         >>,
       <<BTN_IDLE_ST         , BTN_IDLE_ST         , BTN_IDLE_ST         , BTN_IDLE_ST         >>,
       <<BTN_IDLE_ST         , BTN_PRESS_PRE_ST    , BTN_IDLE_ST         , BTN_PRESSED_EVT     >>,
       <<BTN_SHORT_RELEASE_ST, BTN_PRESS_AFT_ST    , BTN_S_RELEASED_EVT  , BTN_PRESS_AFT_ST    >>,
       <<BTN_LONG_RELEASE_ST , BTN_HOLDING_ST      , BTN_L_RELEASED_EVT  , BTN_HOLDING_ST      >>,
       <<BTN_IDLE_ST         , BTN_PRESS_EVT       , BTN_IDLE_ST         , BTN_PRESSED_EVT     >>,
       <<BTN_S_RELEASE_EVT   , BTN_PRESS_AFT_ST    , BTN_S_RELEASE_EVT   , BTN_LONG_PRESSED_EVT>>,
       <<BTN_L_RELEASE_EVT   , BTN_HOLDING_ST      , BTN_L_RELEASED_EVT  , BTN_HOLDING_ST      >> >>

\* faulty variant: a release in Holding takes the short-release path
Table_HoldingShort(u8St, u8Sit) ==
    IF u8St = BTN_HOLDING_ST /\ u8Sit = 0 THEN BTN_S_RELEASE_EVT
    ELSE cg_aau8StateMachine[u8St + 1][u8Sit + 1]

\* faulty variant: a cell of the Idle row holds a code that is no state
Table_IdleNone(u8St, u8Sit) ==
    IF u8St = BTN_IDLE_ST /\ u8Sit = 0 THEN BTN_NONE_EVT
    ELSE cg_aau8StateMachine[u8St + 1][u8Sit + 1]

\* faulty variant: the LongPressed transient goes back to PressAft
Table_LongPressedAgain(u8St, u8Sit) ==
    IF u8St = BTN_LONG_PRESSED_EVT THEN BTN_PRESS_AFT_ST
    ELSE cg_aau8StateMachine[u8St + 1][u8Sit + 1]

\* faulty variant: the Pressed transient reacts to a sample of the normal level
Table_PressedSkip(u8St, u8Sit) ==
    IF u8St = BTN_PRESSED_EVT /\ u8Sit = 0 THEN BTN_S_RELEASE_EVT
    ELSE cg_aau8StateMachine[u8St + 1][u8Sit + 1]

\* faulty variant: a bounce during the short release wait confirms the release
Table_BounceReleases(u8St, u8Sit) ==
    IF u8St = BTN_SHORT_RELEASE_ST /\ u8Sit = 1 THEN BTN_S_RELEASED_EVT
    ELSE cg_aau8StateMachine[u8St + 1][u8Sit + 1]

Table(u8St, u8Sit) == cg_aau8StateMachine[u8St + 1][u8Sit + 1]

(***************************************************************************)
(* Btn_Channel_Process, piece by piece                                     *)
(***************************************************************************)
\* (sg_pfGetTm() - u16OldTm): both operands are uint16.  Where int is 16 bits
\* wide they are promoted to unsigned int and the difference is taken modulo
\* 2^16; where int is wider they are promoted to int and the difference is a
\* signed value.
TmDiff(u16Now, u16OldTm) ==
    IF intBits = 16 THEN (u16Now - u16OldTm) % UINT16_MOD ELSE u16Now - u16OldTm

\* faulty variant: the debounce time is not waited for
TmOut_NoDebounce(tSt, tPara, u16Now) ==
    IF tSt.u8BtnSt < BTN_PRESS_PRE_ST THEN FALSE
    ELSE IF tSt.u8BtnSt < BTN_IDLE_ST THEN TRUE
    ELSE IF tSt.u8BtnSt = BTN_PRESS_AFT_ST
         THEN TmDiff(u16Now, tSt.u16LongPressOldTm) >= tPara.u16LongPressTm
    ELSE FALSE

\* faulty variant: the long-press timer is tested in Holding too
TmOut_Holding(tSt, tPara, u16Now) ==
    IF tSt.u8BtnSt < BTN_PRESS_PRE_ST THEN FALSE
    ELSE IF tSt.u8BtnSt < BTN_IDLE_ST
         THEN TmDiff(u16Now, tSt.u16DebounceOldTm) >= tPara.u16DebounceTm
    ELSE IF tSt.u8BtnSt \in {BTN_PRESS_AFT_ST, BTN_HOLDING_ST}
         THEN TmDiff(u16Now, tSt.u16LongPressOldTm) >= tPara.u16LongPressTm
    ELSE FALSE

\* u8TmOut as the three branches of the function leave it
TmOut(tSt, tPara, u16Now) ==
    IF tSt.u8BtnSt < BTN_PRESS_PRE_ST THEN FALSE
    ELSE IF tSt.u8BtnSt < BTN_IDLE_ST
         THEN TmDiff(u16Now, tSt.u16DebounceOldTm) >= tPara.u16DebounceTm
    ELSE IF tSt.u8BtnSt = BTN_PRESS_AFT_ST
         THEN TmDiff(u16Now, tSt.u16LongPressOldTm) >= tPara.u16LongPressTm
    ELSE FALSE

\* faulty variant: the three internal event codes are reported too
ResEvt_Internal(u8St) ==
    IF u8St < BTN_PRESS_PRE_ST THEN u8St ELSE BTN_NONE_EVT

\* faulty variant: the long-press event is repeated while the button is held
ResEvt_Repeat(u8St) ==
    IF u8St < BTN_PRESS_PRE_ST /\ ~(u8St < BTN_PRESSED_EVT) THEN u8St
    ELSE IF u8St = BTN_HOLDING_ST THEN BTN_LONG_PRESSED_EVT
    ELSE BTN_NONE_EVT

\* ptBtnRes->u8Evt
ResEvt(u8St) ==
    IF u8St < BTN_PRESS_PRE_ST /\ ~(u8St < BTN_PRESSED_EVT) THEN u8St ELSE BTN_NONE_EVT

\* faulty variant: a transient state is reported as it is
ResState_Current(u8St) ==
    IF u8St < BTN_PRESS_PRE_ST THEN u8St
    ELSE IF u8St < BTN_IDLE_ST THEN (u8St + BTN_GO_BACK_OFFSET) % 256
    ELSE u8St

\* faulty variant: a debounce-wait state is reported as it is
ResState_NoGoBack(u8St) ==
    IF u8St < BTN_PRESS_PRE_ST THEN cg_aau8StateMachine[u8St + 1][1] ELSE u8St

\* ptBtnRes->u8State
ResState(u8St) ==
    IF u8St < BTN_PRESS_PRE_ST THEN Table(u8St, 0)
    ELSE IF u8St < BTN_IDLE_ST THEN (u8St + BTN_GO_BACK_OFFSET) % 256
    ELSE u8St

\* faulty variant: level 1 is taken as the pressed level whatever the normal level
Situation_Level1(u8BtnSt, tPara, bTmOut) ==
    (IF u8BtnSt # BTN_NORMAL_0 THEN 1 ELSE 0)
    + (IF bTmOut THEN BTN_TM_TRG_EVT_OFFSET ELSE 0)

\* u8NextSt, the index of the situation
Situation(u8BtnSt, tPara, bTmOut) ==
    (IF u8BtnSt # tPara.u8NormalSt THEN 1 ELSE 0)
    + (IF bTmOut THEN BTN_TM_TRG_EVT_OFFSET ELSE 0)

\* faulty variant: the long-press timing starts again after a release bounce
NewSt_AnchorOnRelease(tSt, tPara, u8BtnSt, u16Now) ==
    [ u16DebounceOldTm  |-> IF tSt.u8BtnSt < BTN_PRESSED_EVT
                            THEN u16Now ELSE tSt.u16DebounceOldTm,
      u16LongPressOldTm |-> IF tSt.u8BtnSt \in {BTN_PRESSED_EVT, BTN_S_RELEASE_EVT}
                            THEN u16Now ELSE tSt.u16LongPressOldTm,
      u8BtnSt           |-> Table(tSt.u8BtnSt,
                                  Situation(u8BtnSt, tPara, TmOut(tSt, tPara, u16Now))) ]

\* faulty variant: the debounce timing of a release is not started
NewSt_NoReleaseAnchor(tSt, tPara, u8BtnSt, u16Now) ==
    [ u16DebounceOldTm  |-> IF tSt.u8BtnSt = BTN_PRESS_EVT
                            THEN u16Now ELSE tSt.u16DebounceOldTm,
      u16LongPressOldTm |-> IF tSt.u8BtnSt = BTN_PRESSED_EVT
                            THEN u16Now ELSE tSt.u16LongPressOldTm,
      u8BtnSt           |-> Table(tSt.u8BtnSt,
                                  Situation(u8BtnSt, tPara, TmOut(tSt, tPara, u16Now))) ]

\* the running status the call leaves
NewSt(tSt, tPara, u8BtnSt, u16Now) ==
    [ u16DebounceOldTm  |-> IF tSt.u8BtnSt < BTN_PRESSED_EVT
                            THEN u16Now ELSE tSt.u16DebounceOldTm,
      u16LongPressOldTm |-> IF tSt.u8BtnSt = BTN_PRESSED_EVT
                            THEN u16Now ELSE tSt.u16LongPressOldTm,
      u8BtnSt           |-> Table(tSt.u8BtnSt,
                                  Situation(u8BtnSt, tPara, TmOut(tSt, tPara, u16Now))) ]

\* faulty variant: a poll of a disabled channel resets the state machine
DisabledOut_Reset(tSt) ==
    [ res |-> [u8Evt |-> BTN_NONE_EVT, u8State |-> BTN_DIS_ST],
      st  |-> [tSt EXCEPT !.u8BtnSt = BTN_IDLE_ST],
      ret |-> SUCCESS ]

\* the branch of a channel that is not enabled: the result written, the running
\* status left and the value returned
DisabledOut(tSt) ==
    [ res |-> [u8Evt |-> BTN_NONE_EVT, u8State |-> BTN_DIS_ST],
      st  |-> tSt,
      ret |-> SUCCESS ]

\* faulty variant: the state machine is not reset
EnDisSt_Keep(tSt) == tSt

\* faulty variant: the state is set to the code reported for a disabled channel
EnDisSt_Dis(tSt) == [tSt EXCEPT !.u8BtnSt = BTN_DIS_ST]

\* Btn_Func_En_Dis: the running status it leaves
EnDisSt(tSt) == [tSt EXCEPT !.u8BtnSt = BTN_IDLE_ST]

(***************************************************************************)
(* History of channel Trk (not program state)                              *)
(*   op, st, lvl, tmOut  the last call: its kind, the FSM state it found,  *)
(*                       the level it sampled, the u8TmOut it computed     *)
(*   fresh      the time source has not advanced since the last poll       *)
(*   seq        2 when the last poll repeated the poll before it: same     *)
(*              timestamp, same level, no other call in between; else 1    *)
(*   stay1      (seq = 2) the first of the two polls left the state as it  *)
(*              found it                                                   *)
(*   pnorm      the poll before the last poll sampled the normal level     *)
(*   since      time since the poll that left Idle, saturating at the      *)
(*              debounce time                                              *)
(*   run        1: every sample since Idle was the pressed level and the   *)
(*              samples span less than the debounce time; 2, 3: followed   *)
(*              by one, two or more samples of the normal level; else 0    *)
(*   cyc        a poll returned BTN_PRESSED_EVT and no release event or    *)
(*              reset came after it                                        *)
(*   sinceP     time since the poll that returned BTN_PRESSED_EVT,         *)
(*              saturating at the long-press time                          *)
(*   heldP      every poll after that one sampled the pressed level        *)
(*   lp         polls that returned BTN_LONG_PRESSED_EVT since (at most 2) *)
(*   late       polls since that sampled the pressed level when the        *)
(*              long-press time had passed (at most 2), while heldP        *)
(*   scn        number of polls of the five-poll scenario matched so far   *)
(*   tmP        timestamp of the last poll that returned BTN_PRESSED_EVT   *)
(*   tmD        timestamp of the last poll that found the FSM in Press,    *)
(*              ShortRelease or LongRelease                                *)
(***************************************************************************)
Min(a, b) == IF a < b THEN a ELSE b

\* no timestamp: no such poll since the last reset
NoTm == 0 - 1

HistInit ==
    [ op |-> "none", st |-> 0, lvl |-> 0, tmOut |-> FALSE, fresh |-> FALSE,
      seq |-> 0, stay1 |-> FALSE, pnorm |-> FALSE,
      since |-> 0, run |-> 0, cyc |-> FALSE,
      sinceP |-> 0, heldP |-> FALSE, lp |-> 0, late |-> 0, scn |-> 0,
      tmP |-> NoTm, tmD |-> NoTm ]

\* states between a reset and the confirmation of a press
BeforePressed(u8St) ==
    u8St \in {BTN_IDLE_ST, BTN_PRESS_EVT, BTN_PRESS_PRE_ST, BTN_PRESSED_EVT}

IsDemoPara(tPara) ==
    /\ tPara.u16DebounceTm = DEMO_DEBOUNCE_TM
    /\ tPara.u16LongPressTm = DEMO_LONG_PRESS_TM
    /\ tPara.u8NormalSt = BTN_NORMAL_0

\* a reset of the channel: Btn_Channel_Init or Btn_Func_En_Dis
HistReset(op, u8St, u8Arg) ==
    [ HistInit EXCEPT !.op = op, !.st = u8St, !.lvl = u8Arg ]

\* a poll that returned without sampling (disabled channel, level read error)
HistNoSample(op, u8St) ==
    [ h EXCEPT !.op = op, !.st = u8St, !.lvl = 0, !.tmOut = FALSE, !.fresh = FALSE,
               !.seq = 0, !.stay1 = FALSE, !.pnorm = FALSE, !.scn = 0 ]

\* a poll of an enabled channel that sampled u8BtnSt at time u16Now
HistPoll(tSt, tPara, u8BtnSt, u16Now) ==
    LET st      == tSt.u8BtnSt
        pressed == u8BtnSt # tPara.u8NormalSt
        evt     == ResEvt(st)
        isP     == evt = BTN_PRESSED_EVT
        isRel   == evt \in {BTN_S_RELEASED_EVT, BTN_L_RELEASED_EVT}
        again   == h.op = "poll" /\ h.fresh /\ h.lvl = u8BtnSt
        held    == IF isP THEN TRUE ELSE h.heldP /\ pressed
        match(k) == u16Now = DemoTm[k] /\ u8BtnSt = DemoLvl[k]
    IN  [ op    |-> "poll",
          st    |-> st,
          lvl   |-> u8BtnSt,
          tmOut |-> TmOut(tSt, tPara, u16Now),
          fresh |-> TRUE,
          seq   |-> IF again THEN 2 ELSE 1,
          stay1 |-> again /\ h.st = st,
          pnorm |-> h.op = "poll" /\ h.lvl = tPara.u8NormalSt,
          since |-> IF st = BTN_IDLE_ST THEN 0 ELSE h.since,
          run   |-> IF st = BTN_IDLE_ST
                    THEN (IF pressed /\ tPara.u16DebounceTm > 0 THEN 1 ELSE 0)
                    ELSE IF h.run = 1
                    THEN (IF pressed
                          THEN (IF h.since < tPara.u16DebounceTm THEN 1 ELSE 0)
                          ELSE 2)
                    ELSE IF h.run \in {2, 3}
                    THEN (IF pressed THEN 0 ELSE 3)
                    ELSE 0,
          cyc    |-> IF isP THEN TRUE ELSE IF isRel THEN FALSE ELSE h.cyc,
          sinceP |-> IF isP \/ ~h.cyc THEN 0 ELSE h.sinceP,
          heldP  |-> IF isRel THEN FALSE ELSE held,
          lp     |-> IF isP \/ ~h.cyc THEN 0
                     ELSE IF evt = BTN_LONG_PRESSED_EVT THEN Min(h.lp + 1, 2) ELSE h.lp,
          late   |-> IF isP \/ ~held THEN 0
                     ELSE IF h.sinceP >= tPara.u16LongPressTm THEN Min(h.late + 1, 2)
                     ELSE h.late,
          scn    |-> IF IsDemoPara(tPara) /\ h.scn \in 1 .. 4 /\ match(h.scn + 1)
                     THEN h.scn + 1
                     ELSE IF IsDemoPara(tPara) /\ st = BTN_IDLE_ST /\ elapsed = 0 /\ match(1)
                     THEN 1 ELSE 0,
          tmP    |-> IF isP THEN u16Now ELSE h.tmP,
          tmD    |-> IF st < BTN_PRESSED_EVT THEN u16Now ELSE h.tmD ]

\* the time source advanced by d
HistTick(d) ==
    IF sg_aptBtnPara[Trk] = NULL THEN h
    ELSE LET tPara == tBtnPara[sg_aptBtnPara[Trk]]
         IN  [ h EXCEPT !.fresh  = FALSE,
                        !.since  = IF sg_atBtnSt[Trk].u8BtnSt = BTN_IDLE_ST
                                   THEN 0 ELSE Min(@ + d, tPara.u16DebounceTm),
                        !.sinceP = IF h.cyc THEN Min(@ + d, tPara.u16LongPressTm) ELSE 0 ]

(***************************************************************************)
(* Initial state: the statics of the module are zero; the caller has set   *)
(* up its parameter objects.                                               *)
(***************************************************************************)
\* the static array of Btn_SM_Easy_Init before the first call
ZeroPara ==
    [ u16LongPressTm |-> 0, u16DebounceTm |-> 0, u8BtnEn |-> 0, u8NormalSt |-> 0, u8Ch |-> 0 ]

\* the T_BTN_PARA objects when the caller has filled in its own as tCaller (the
\* demo's main leaves u8Ch of its object unset, and the module never reads it)
ParaObjects(tCaller) ==
    [p \in ParaIds \cup EasyIds |-> IF p \in ParaIds THEN tCaller ELSE ZeroPara]

\* after Btn_General_Init(System_Time, Btn_St_Get), the first call of the demo's main
InitGeneral == sg_pfGetTm = FirstFn /\ sg_pfGetBtnSt = FirstFn

InitStatics ==
    /\ sg_aptBtnPara = [c \in Chs |-> NULL]
    /\ sg_atBtnSt = [c \in Chs |-> [u16DebounceOldTm |-> 0, u16LongPressOldTm |-> 0,
                                    u8BtnSt |-> 0]]
    /\ sg_atBtn = [c \in Chs |-> [u8Evt |-> 0, u8State |-> 0]]
    /\ u8Ret = SUCCESS
    /\ elapsed = 0
    /\ intBits \in {16, 32}
    /\ call = [op |-> "none", ch |-> 0, arg |-> 0]
    /\ h = HistInit

Init ==
    /\ InitStatics
    /\ InitGeneral
    /\ tm = StartTm
    /\ \E d \in DebounceTms, l \in LongPressTms, n \in NormalSts :
         tBtnPara = ParaObjects(
                       [u16LongPressTm |-> l, u16DebounceTm |-> d,
                        u8BtnEn |-> BTN_FUNC_ENABLE, u8NormalSt |-> n])

InitDemo ==
    /\ InitStatics
    /\ InitGeneral
    /\ tm = DemoTm[1]
    /\ tBtnPara = ParaObjects(
                     [u16LongPressTm |-> DEMO_LONG_PRESS_TM, u16DebounceTm |-> DEMO_DEBOUNCE_TM,
                      u8BtnEn |-> BTN_FUNC_ENABLE, u8NormalSt |-> BTN_NORMAL_0])

\* after the registration loop of the demo's main: every channel registered with
\* the address of the one T_BTN_PARA object
InitShared ==
    /\ sg_aptBtnPara = [c \in Chs |-> 1]
    /\ InitGeneral
    /\ sg_atBtnSt = [c \in Chs |-> [u16DebounceOldTm |-> 0, u16LongPressOldTm |-> 0,
                                    u8BtnSt |-> BTN_IDLE_ST]]
    /\ sg_atBtn = [c \in Chs |-> [u8Evt |-> 0, u8State |-> 0]]
    /\ u8Ret = SUCCESS
    /\ elapsed = 0
    /\ intBits \in {16, 32}
    /\ call = [op |-> "init", ch |-> MAX_BTN_CH, arg |-> 1]
    /\ h = HistReset("init", 0, 0)
    /\ tm = StartTm
    /\ tBtnPara = ParaObjects(
                     [u16LongPressTm |-> MaxLongPress, u16DebounceTm |-> MaxDebounce,
                      u8BtnEn |-> BTN_FUNC_ENABLE, u8NormalSt |-> BTN_NORMAL_0])

\* the caller has one parameter object, with both durations 0 so that every
\* state of the FSM is within reach of a few polls, and has made no call yet
InitErr ==
    /\ InitStatics
    /\ InitGeneral
    /\ tm = StartTm
    /\ tBtnPara = ParaObjects(
                     [u16LongPressTm |-> 0, u16DebounceTm |-> 0,
                      u8BtnEn |-> BTN_FUNC_ENABLE, u8NormalSt |-> BTN_NORMAL_0])

\* the caller has registered channel Trk and polls from here on, starting
\* just before the rollover of the time source
InitLive ==
    /\ sg_aptBtnPara = [c \in Chs |-> IF c = Trk THEN 1 ELSE NULL]
    /\ InitGeneral
    /\ sg_atBtnSt = [c \in Chs |-> [u16DebounceOldTm |-> 0, u16LongPressOldTm |-> 0,
                                    u8BtnSt |-> IF c = Trk THEN BTN_IDLE_ST ELSE 0]]
    /\ sg_atBtn = [c \in Chs |-> [u8Evt |-> 0, u8State |-> 0]]
    /\ u8Ret = SUCCESS
    /\ elapsed = 0
    /\ intBits \in {16, 32}
    /\ call = [op |-> "init", ch |-> Trk, arg |-> 1]
    /\ h = HistReset("init", 0, 0)
    /\ tm = StartTm
    /\ \E d \in DebounceTms, l \in LongPressTms, n \in NormalSts :
         tBtnPara = ParaObjects(
                       [u16LongPressTm |-> l, u16DebounceTm |-> d,
                        u8BtnEn |-> BTN_FUNC_ENABLE, u8NormalSt |-> n])

\* a second T_BTN_PARA object of the caller
MirrorPara == Cardinality(ParaIds) + MAX_BTN_CH + 1

\* the caller has registered two channels with the same durations, each with
\* its own parameter object: Trk with normal level 0, Sibling with normal
\* level 1
InitMirror ==
    /\ sg_aptBtnPara = [c \in Chs |-> IF c = Trk THEN 1
                                      ELSE IF c = Sibling THEN MirrorPara ELSE NULL]
    /\ InitGeneral
    /\ sg_atBtnSt = [c \in Chs |-> [u16DebounceOldTm |-> 0, u16LongPressOldTm |-> 0,
                                    u8BtnSt |-> IF c \in {Trk, Sibling}
                                                THEN BTN_IDLE_ST ELSE 0]]
    /\ sg_atBtn = [c \in Chs |-> [u8Evt |-> 0, u8State |-> 0]]
    /\ u8Ret = SUCCESS
    /\ elapsed = 0
    /\ intBits \in {16, 32}
    /\ call = [op |-> "init", ch |-> Sibling, arg |-> MirrorPara]
    /\ h = HistReset("init", 0, 0)
    /\ tm = StartTm
    /\ \E d \in DebounceTms, l \in LongPressTms :
         tBtnPara = [p \in ParaIds \cup EasyIds \cup {MirrorPara} |->
                       IF p \in ParaIds
                       THEN [u16LongPressTm |-> l, u16DebounceTm |-> d,
                             u8BtnEn |-> BTN_FUNC_ENABLE, u8NormalSt |-> BTN_NORMAL_0]
                       ELSE IF p = MirrorPara
                       THEN [u16LongPressTm |-> l, u16DebounceTm |-> d,
                             u8BtnEn |-> BTN_FUNC_ENABLE, u8NormalSt |-> BTN_NORMAL_1]
                       ELSE ZeroPara]

\* nothing is registered: no function, no channel
InitGen ==
    /\ InitStatics
    /\ sg_pfGetTm = NULL /\ sg_pfGetBtnSt = NULL
    /\ tm = StartTm
    /\ tBtnPara = ParaObjects(
                     [u16LongPressTm |-> MaxLongPress, u16DebounceTm |-> MaxDebounce,
                      u8BtnEn |-> BTN_FUNC_ENABLE, u8NormalSt |-> BTN_NORMAL_0])

(***************************************************************************)
(* Actions                                                                 *)
(***************************************************************************)
\* faulty variant: the parameter pointer is not checked
InitArgsBad_NoNullCheck(u8Ch, ptBtnPara) ==
    (0 = u8Ch) \/ (u8Ch > MAX_BTN_CH)

\* the two parameter checks of Btn_Channel_Init
InitArgsBad(u8Ch, ptBtnPara) ==
    (0 = u8Ch) \/ (u8Ch > MAX_BTN_CH) \/ (NULL = ptBtnPara)

\* uint8 Btn_Channel_Init(uint8 u8Ch, T_BTN_PARA *ptBtnPara)
Btn_Channel_Init(u8Ch, ptBtnPara) ==
    /\ u8Ret # TRAP
    /\ IF InitArgsBad(u8Ch, ptBtnPara)
       THEN /\ u8Ret' = BTN_ERROR
            /\ UNCHANGED <<sg_aptBtnPara, sg_atBtnSt, h>>
       ELSE /\ sg_aptBtnPara' = [sg_aptBtnPara EXCEPT ![u8Ch] = ptBtnPara]
            /\ sg_atBtnSt' = [sg_atBtnSt EXCEPT ![u8Ch].u8BtnSt = BTN_IDLE_ST]
            /\ u8Ret' = SUCCESS
            /\ h' = IF u8Ch = Trk THEN HistReset("init", sg_atBtnSt[u8Ch].u8BtnSt, 0) ELSE h
    /\ call' = [op |-> "init", ch |-> u8Ch, arg |-> ptBtnPara]
    /\ UNCHANGED <<tBtnPara, sg_atBtn, tm, elapsed, intBits, sg_pfGetTm, sg_pfGetBtnSt>>

\* the element of sg_aptBtnPara and of sg_atBtnSt that lines 102 and 103 of
\* Btn_Func_En_Dis access for channel u8Ch: index u8Ch - 1, with no test of u8Ch
EnDisSlot(u8Ch) == u8Ch

\* what the load of sg_aptBtnPara[u8Ch - 1] yields for an index outside the
\* array: the bytes of whatever object lies there, taken as a pointer (NULL,
\* the address of a T_BTN_PARA object of the caller, or an address that is no
\* object)
NoObject == 0 - 1
WildPtrs == ParaIds \cup {NULL, NoObject}

\* void Btn_Func_En_Dis(uint8 u8Ch, uint8 u8EnDis).  The function tests neither
\* u8Ch nor the stored pointer.  For a registered channel it sets the flag of
\* the channel's parameter object and resets the state machine.  For a channel
\* in range that is not registered, line 102 writes through the NULL pointer:
\* the call traps, or the write hits address 0 and line 103 resets the running
\* status.  For a channel out of range both lines work outside the arrays: the
\* call traps, or line 102 writes through whatever pointer the load yields and
\* line 103 writes outside sg_atBtnSt.
Btn_Func_En_Dis(u8Ch, u8EnDis) ==
    /\ u8Ret # TRAP
    /\ IF EnDisSlot(u8Ch) \in Chs /\ sg_aptBtnPara[EnDisSlot(u8Ch)] # NULL
       THEN /\ tBtnPara' = [tBtnPara EXCEPT ![sg_aptBtnPara[u8Ch]].u8BtnEn = u8EnDis]
            /\ sg_atBtnSt' = [sg_atBtnSt EXCEPT ![u8Ch] = EnDisSt(sg_atBtnSt[u8Ch])]
            /\ h' = IF u8Ch = Trk
                    THEN HistReset("endis", sg_atBtnSt[u8Ch].u8BtnSt, u8EnDis) ELSE h
            /\ UNCHANGED u8Ret
       ELSE IF EnDisSlot(u8Ch) \in Chs
       THEN \E bTrap \in BOOLEAN :
                IF bTrap
                THEN /\ u8Ret' = TRAP
                     /\ UNCHANGED <<tBtnPara, sg_atBtnSt, h>>
                ELSE /\ sg_atBtnSt' = [sg_atBtnSt EXCEPT ![u8Ch] = EnDisSt(sg_atBtnSt[u8Ch])]
                     /\ h' = IF u8Ch = Trk
                             THEN HistReset("endis", sg_atBtnSt[u8Ch].u8BtnSt, u8EnDis)
                             ELSE h
                     /\ UNCHANGED <<tBtnPara, u8Ret>>
       ELSE \E ptWild \in WildPtrs :
                IF ptWild = NoObject
                THEN /\ u8Ret' = TRAP
                     /\ UNCHANGED <<tBtnPara, sg_atBtnSt, h>>
                ELSE /\ tBtnPara' = IF ptWild = NULL THEN tBtnPara
                                    ELSE [tBtnPara EXCEPT ![ptWild].u8BtnEn = u8EnDis]
                     /\ UNCHANGED <<sg_atBtnSt, u8Ret, h>>
    /\ call' = [op |-> "endis", ch |-> u8Ch, arg |-> u8EnDis]
    /\ UNCHANGED <<sg_aptBtnPara, sg_atBtn, tm, elapsed, intBits, sg_pfGetTm, sg_pfGetBtnSt>>

\* faulty variant: a later call registers its function in place of the first
RegFn_Always(sgFn, pfFn) == pfFn

\* "if(NULL == sg_pf...) sg_pf... = pf...": a function is registered only when
\* none is registered yet
RegFn(sgFn, pfFn) == IF NULL = sgFn THEN pfFn ELSE sgFn

\* Btn_General_Init: the two functions it leaves registered and the value it returns
GeneralOut(pfGetTm, pfGetBtnSt) ==
    IF NULL = pfGetTm
    THEN [ tm |-> sg_pfGetTm, btn |-> sg_pfGetBtnSt, ret |-> BTN_ERROR ]
    ELSE IF NULL = pfGetBtnSt
    THEN [ tm |-> RegFn(sg_pfGetTm, pfGetTm), btn |-> sg_pfGetBtnSt, ret |-> BTN_ERROR ]
    ELSE [ tm  |-> RegFn(sg_pfGetTm, pfGetTm),
           btn |-> RegFn(sg_pfGetBtnSt, pfGetBtnSt),
           ret |-> SUCCESS ]

\* uint8 Btn_General_Init(PF_GET_TM pfGetTm, PF_GET_BTN pfGetBtnSt)
Btn_General_Init(pfGetTm, pfGetBtnSt) ==
    /\ u8Ret # TRAP
    /\ sg_pfGetTm' = GeneralOut(pfGetTm, pfGetBtnSt).tm
    /\ sg_pfGetBtnSt' = GeneralOut(pfGetTm, pfGetBtnSt).btn
    /\ u8Ret' = GeneralOut(pfGetTm, pfGetBtnSt).ret
    /\ call' = [op |-> "general", pfGetTm |-> pfGetTm, pfGetBtnSt |-> pfGetBtnSt]
    /\ UNCHANGED <<sg_aptBtnPara, sg_atBtnSt, tBtnPara, sg_atBtn, tm, elapsed, intBits, h>>

\* faulty variant: every element gets the channel number of the first
EasyPara_Ch1(u8Idx) ==
    [ u16LongPressTm |-> EASY_LONG_PRESS_TM, u16DebounceTm |-> EASY_DEBOUNCE_TM,
      u8BtnEn |-> BTN_FUNC_ENABLE, u8NormalSt |-> BTN_NORMAL_0, u8Ch |-> 1 ]

\* the parameters Btn_SM_Easy_Init writes to s_atBtnPara[u8Idx]
EasyPara(u8Idx) ==
    [ u16LongPressTm |-> EASY_LONG_PRESS_TM, u16DebounceTm |-> EASY_DEBOUNCE_TM,
      u8BtnEn |-> BTN_FUNC_ENABLE, u8NormalSt |-> BTN_NORMAL_0, u8Ch |-> u8Idx + 1 ]

\* uint8 Btn_SM_Easy_Init(PF_GET_TM pfGetTm, PF_GET_BTN pfGetBtnSt): the general
\* init, then for every channel the parameters and Btn_Channel_Init
Btn_SM_Easy_Init(pfGetTm, pfGetBtnSt) ==
    /\ u8Ret # TRAP
    /\ sg_pfGetTm' = GeneralOut(pfGetTm, pfGetBtnSt).tm
    /\ sg_pfGetBtnSt' = GeneralOut(pfGetTm, pfGetBtnSt).btn
    /\ u8Ret' = GeneralOut(pfGetTm, pfGetBtnSt).ret
    /\ IF BTN_ERROR = GeneralOut(pfGetTm, pfGetBtnSt).ret
       THEN UNCHANGED <<sg_aptBtnPara, sg_atBtnSt, tBtnPara, h>>
       ELSE /\ tBtnPara' = [p \in DOMAIN tBtnPara |->
                              IF p \in EasyIds
                              THEN EasyPara(p - s_atBtnPara(0)) ELSE tBtnPara[p]]
            /\ sg_aptBtnPara' = [c \in Chs |-> s_atBtnPara(c - 1)]
            /\ sg_atBtnSt' = [c \in Chs |->
                                [sg_atBtnSt[c] EXCEPT !.u8BtnSt = BTN_IDLE_ST]]
            /\ h' = HistReset("init", sg_atBtnSt[Trk].u8BtnSt, 0)
    /\ call' = [op |-> "easy", pfGetTm |-> pfGetTm, pfGetBtnSt |-> pfGetBtnSt]
    /\ UNCHANGED <<sg_atBtn, tm, elapsed, intBits>>

\* what a read through the NULL pointer of a channel that is not registered
\* yields where address 0 is readable (as on the demo's target): any values
NullParas ==
    [ u16LongPressTm : {0}, u16DebounceTm : {0},
      u8BtnEn : {BTN_FUNC_ENABLE, BTN_FUNC_DISABLE}, u8NormalSt : NormalSts ]

\* faulty variant: the running status of the next channel is used
StSlot_Next(u8Ch) == (u8Ch % MAX_BTN_CH) + 1

\* &(sg_atBtnSt[u8Ch - 1]): the element of the running status a call works on
StSlot(u8Ch) == u8Ch

\* faulty variant: a level read error is taken as a sample of the normal level
LevelErrSt_AsNormal(tSt) ==
    [tSt EXCEPT !.u8BtnSt = Table(tSt.u8BtnSt, 0)]

\* the running status the return of lines 350-353 leaves
LevelErrSt(tSt) == tSt

\* faulty variant: a level read error clears the event of the result
LevelErrRes_None(tRes) == [tRes EXCEPT !.u8Evt = BTN_NONE_EVT]

\* *ptBtnRes as the return of lines 350-353 leaves it: nothing is written
LevelErrRes(tRes) == tRes

\* Btn_Channel_Process from line 334 on, with *ptBtnPara = tPara.  An enabled
\* channel calls the level source: with none registered the call goes through a
\* NULL pointer and does not return.  Btn_General_Init registers the time source
\* before the level source, so sg_pfGetTm is set whenever sg_pfGetBtnSt is.
ProcessWith(u8Ch, tPara, u8BtnSt) ==
    LET ptBtnSt == sg_atBtnSt[StSlot(u8Ch)]
    IN  IF tPara.u8BtnEn # BTN_FUNC_ENABLE
        THEN /\ sg_atBtn' = [sg_atBtn EXCEPT ![u8Ch] = DisabledOut(ptBtnSt).res]
             /\ sg_atBtnSt' = [sg_atBtnSt EXCEPT ![StSlot(u8Ch)] = DisabledOut(ptBtnSt).st]
             /\ u8Ret' = DisabledOut(ptBtnSt).ret
             /\ h' = IF u8Ch = Trk THEN HistNoSample("dis", ptBtnSt.u8BtnSt) ELSE h
        ELSE IF sg_pfGetBtnSt = NULL
        THEN /\ u8Ret' = TRAP
             /\ UNCHANGED <<sg_atBtnSt, sg_atBtn, h>>
        ELSE IF BTN_ERROR = u8BtnSt
        THEN /\ u8Ret' = BTN_ERROR
             /\ sg_atBtnSt' = [sg_atBtnSt EXCEPT ![StSlot(u8Ch)] = LevelErrSt(ptBtnSt)]
             /\ h' = IF u8Ch = Trk THEN HistNoSample("err", ptBtnSt.u8BtnSt) ELSE h
             /\ sg_atBtn' = [sg_atBtn EXCEPT ![u8Ch] = LevelErrRes(sg_atBtn[u8Ch])]
        ELSE /\ sg_atBtn' = [sg_atBtn EXCEPT ![u8Ch] =
                               [u8Evt   |-> ResEvt(ptBtnSt.u8BtnSt),
                                u8State |-> ResState(ptBtnSt.u8BtnSt)]]
             /\ sg_atBtnSt' = [sg_atBtnSt EXCEPT ![StSlot(u8Ch)] =
                                 NewSt(ptBtnSt, tPara, u8BtnSt, tm)]
             /\ u8Ret' = SUCCESS
             /\ h' = IF u8Ch = Trk THEN HistPoll(ptBtnSt, tPara, u8BtnSt, tm) ELSE h

\* faulty variant: the range check returns SUCCESS
ChRangeRet_Success == SUCCESS

\* what the range check of lines 328-331 returns
ChRangeRet == BTN_ERROR

\* the element of sg_aptBtnPara that line 324 loads (index u8Ch - 1), in the
\* declaration of ptBtnPara, before the test of u8Ch of line 328
ParaSlot(u8Ch) == u8Ch

\* uint8 Btn_Channel_Process(uint8 u8Ch, T_BTN_RESULT *ptBtnRes) with
\* ptBtnRes = &sg_atBtn[u8Ch - 1]; u8BtnSt is what the level source returns.
\* Lines 324-325 load sg_aptBtnPara[u8Ch - 1] before the range check; for a
\* channel number out of range the value loaded is never used.  For a channel
\* in range that is not registered, line 334 reads through the NULL pointer:
\* the call traps, or goes on with whatever the read yields.
Btn_Channel_Process(u8Ch, u8BtnSt) ==
    /\ u8Ret # TRAP
    /\ IF (0 = u8Ch) \/ (u8Ch > MAX_BTN_CH)
       THEN /\ u8Ret' = ChRangeRet
            /\ UNCHANGED <<sg_atBtnSt, sg_atBtn, h>>
       ELSE IF sg_aptBtnPara[u8Ch] = NULL
       THEN \E bTrap \in BOOLEAN, tNull \in NullParas :
                IF bTrap
                THEN /\ u8Ret' = TRAP
                     /\ UNCHANGED <<sg_atBtnSt, sg_atBtn, h>>
                ELSE ProcessWith(u8Ch, tNull, u8BtnSt)
       ELSE ProcessWith(u8Ch, tBtnPara[sg_aptBtnPara[u8Ch]], u8BtnSt)
    /\ call' = [op |-> "process", ch |-> u8Ch, arg |-> ParaSlot(u8Ch)]
    /\ UNCHANGED <<sg_aptBtnPara, tBtnPara, tm, elapsed, intBits, sg_pfGetTm, sg_pfGetBtnSt>>

\* GPIOA_PDIR is modelled as the set of the input pins of port A that read 1;
\* (!(GPIOA_PDIR & (1 << pin)))
PinLow(GPIOA_PDIR, pin) == IF pin \in GPIOA_PDIR THEN 0 ELSE 1

\* the pins the demo reads
PortPins == {5, 4, 12}

\* uint8 Btn_St_Get(uint8 u8Ch) of the demo, statement by statement: u8Temp
\* after the first "if", after the second "if", and after the "if ... else"
\* of channel 3, which is the value returned
Btn_St_Get(u8Ch, GPIOA_PDIR) ==
    LET u8Temp0 == 0      \* not initialised; every path assigns it before the return
        u8Temp1 == IF u8Ch = 1 THEN PinLow(GPIOA_PDIR, 5) ELSE u8Temp0
        u8Temp2 == IF u8Ch = 2 THEN PinLow(GPIOA_PDIR, 4) ELSE u8Temp1
        u8Temp3 == IF u8Ch = 3 THEN PinLow(GPIOA_PDIR, 12) ELSE BTN_ERROR
    IN  u8Temp3

\* a call of Btn_St_Get(u8Ch) while the port reads GPIOA_PDIR
GetCall(u8Ch, GPIOA_PDIR) ==
    /\ u8Ret # TRAP
    /\ u8Ret' = Btn_St_Get(u8Ch, GPIOA_PDIR)
    /\ call' = [op |-> "get", ch |-> u8Ch, arg |-> GPIOA_PDIR]
    /\ UNCHANGED <<sg_aptBtnPara, sg_atBtnSt, tBtnPara, sg_atBtn, tm, elapsed, intBits, h,
                   sg_pfGetTm, sg_pfGetBtnSt>>

\* the free running time source advances
Tick(steps, limit) ==
    \E d \in steps :
        /\ u8Ret # TRAP
        /\ elapsed + d <= limit
        /\ tm' = (tm + d) % UINT16_MOD
        /\ elapsed' = elapsed + d
        /\ h' = HistTick(d)
        /\ UNCHANGED <<sg_aptBtnPara, sg_atBtnSt, tBtnPara, sg_atBtn, u8Ret, intBits, call,
                     sg_pfGetTm, sg_pfGetBtnSt>>

\* the calls the caller makes for channel Trk
RegisterCall == Btn_Channel_Init(Trk, 1)
EnDisCall    ==
    sg_aptBtnPara[Trk] # NULL
    /\ \E e \in {BTN_FUNC_ENABLE, BTN_FUNC_DISABLE} : Btn_Func_En_Dis(Trk, e)
PollCall     == sg_aptBtnPara[Trk] # NULL /\ \E l \in Levels : Btn_Channel_Process(Trk, l)
TimeStep     == Tick(Steps, MaxElapsed)
DemoTimeStep == Tick({DemoTm[k] - tm : k \in {i \in 1 .. Len(DemoTm) : DemoTm[i] > tm}}, DemoElapsed)
\* Btn_Func_En_Dis for another channel registered with the same T_BTN_PARA object
SiblingEnDis ==
    sg_aptBtnPara[Sibling] # NULL
    /\ \E e \in {BTN_FUNC_ENABLE, BTN_FUNC_DISABLE} : Btn_Func_En_Dis(Sibling, e)

\* calls with any channel number and any parameter pointer, in any order
InitAny    == \E c \in AnyChs, p \in ParaIds \cup {NULL} : Btn_Channel_Init(c, p)
ProcessAny == \E c \in PollChs, l \in Levels : Btn_Channel_Process(c, l)
\* Btn_Func_En_Dis for any channel that is registered
EnDisAny   ==
    \E c \in AnyChs \cap Chs, e \in {BTN_FUNC_ENABLE, BTN_FUNC_DISABLE} :
        sg_aptBtnPara[c] # NULL /\ Btn_Func_En_Dis(c, e)
\* Btn_Func_En_Dis for any channel number, registered or not
EnDisWild  == \E c \in AnyChs, e \in {BTN_FUNC_ENABLE, BTN_FUNC_DISABLE} : Btn_Func_En_Dis(c, e)
ErrTimeStep == Tick(Steps, ErrElapsed)

\* the time source keeps advancing: the caller polls at least once every
\* quarter of its period
LapSteps == {UINT16_MOD \div 4}
LapTick ==
    \E d \in LapSteps :
        /\ u8Ret # TRAP
        /\ h.fresh
        /\ tm' = (tm + d) % UINT16_MOD
        /\ elapsed' = Min(elapsed + d, UINT16_MOD)
        /\ h' = HistTick(d)
        /\ UNCHANGED <<sg_aptBtnPara, sg_atBtnSt, tBtnPara, sg_atBtn, u8Ret, intBits, call,
                       sg_pfGetTm, sg_pfGetBtnSt>>

\* the level source always returns the pressed level
PressedPoll ==
    \E l \in {BTN_STATE_0, BTN_STATE_1} :
        l # tBtnPara[sg_aptBtnPara[Trk]].u8NormalSt /\ Btn_Channel_Process(Trk, l)

\* the caller's polling loop goes on to the next channel
SiblingPoll  == \E l \in Levels : Btn_Channel_Process(Sibling, l)
PairTimeStep == Tick(Steps, PairElapsed)

\* the polling loop of the demo's main: every channel in turn, with Btn_St_Get
\* as the level source
LoopPoll ==
    \E c \in Chs, GPIOA_PDIR \in SUBSET PortPins :
        Btn_Channel_Process(c, Btn_St_Get(c, GPIOA_PDIR))
\* Btn_St_Get called with any channel number
GetAny ==
    \E c \in 0 .. (MAX_BTN_CH + 1), GPIOA_PDIR \in SUBSET PortPins : GetCall(c, GPIOA_PDIR)

\* the polling loop with two buttons wired with opposite polarity: in every
\* round Trk samples a level and Sibling samples the inverted level, at the
\* same time
BothPolled == ~(call.op = "process" /\ call.ch = Trk)
MirrorPollTrk ==
    BothPolled /\ \E l \in {BTN_STATE_0, BTN_STATE_1} : Btn_Channel_Process(Trk, l)
MirrorPollSibling ==
    ~BothPolled /\ Btn_Channel_Process(Sibling, 1 - h.lvl)
MirrorTimeStep == BothPolled /\ Tick(Steps, MaxElapsed)

\* the init calls with any function pointers, made at any time
GeneralInitAny == \E f \in Fns \cup {NULL}, g \in Fns \cup {NULL} : Btn_General_Init(f, g)
EasyInitAny    == \E f \in Fns \cup {NULL}, g \in Fns \cup {NULL} : Btn_SM_Easy_Init(f, g)

Next == RegisterCall \/ EnDisCall \/ PollCall \/ TimeStep

NextDemo == RegisterCall \/ EnDisCall \/ PollCall \/ DemoTimeStep

NextShared == SiblingEnDis \/ EnDisCall \/ PollCall \/ TimeStep

NextErr == InitAny \/ ProcessAny \/ EnDisAny \/ ErrTimeStep

NextPair == PollCall \/ SiblingPoll \/ PairTimeStep

NextGen == GeneralInitAny \/ EasyInitAny \/ RegisterCall \/ PollCall

NextLive == PressedPoll \/ LapTick

\* the channel is polled forever with the button held and the time source
\* keeps advancing
SpecLive == InitLive /\ [][NextLive]_vars /\ WF_vars(PressedPoll) /\ WF_vars(LapTick)

\* the channel is polled forever, with any levels, and the time source keeps
\* advancing
NextRest == PollCall \/ LapTick

SpecRest == InitLive /\ [][NextRest]_vars /\ WF_vars(PollCall) /\ WF_vars(LapTick)

NextLoop == LoopPoll \/ GetAny \/ PairTimeStep

\* the demo: the channels registered as its main registers them and polled with
\* its level source
SpecLoop == InitShared /\ [][NextLoop]_vars

NextWild == RegisterCall \/ EnDisWild \/ PollCall \/ ErrTimeStep

\* Btn_Func_En_Dis called with any channel number, before and after the
\* registration of the channels
SpecWild == InitErr /\ [][NextWild]_vars

NextMirror == MirrorPollTrk \/ MirrorPollSibling \/ MirrorTimeStep

\* two channels of opposite polarity polled with mirrored samples
SpecMirror == InitMirror /\ [][NextMirror]_vars

\* two channels registered the way the demo's main registers them, both polled
SpecPair == InitShared /\ [][NextPair]_vars

\* the general init and the easy init, called any number of times, before and
\* after the registration and between the polls of a channel
SpecGen == InitGen /\ [][NextGen]_vars

\* calls of every kind, valid or not, before and after registration
SpecErr == InitErr /\ [][NextErr]_vars

\* one channel, registered and polled by the caller
Spec == Init /\ [][Next]_vars

\* the channel with the parameters and the timestamps of the five-poll scenario
SpecDemo == InitDemo /\ [][NextDemo]_vars

\* the channels registered the way the demo's main registers them
SpecShared == InitShared /\ [][NextShared]_vars

TypeOK ==
    /\ sg_aptBtnPara \in [Chs -> ParaIds \cup EasyIds \cup {NULL}]
    /\ \A c \in Chs : sg_atBtnSt[c].u8BtnSt \in 0 .. (BTN_STATE_NUM - 1)
    /\ tm \in 0 .. (UINT16_MOD - 1)

(***************************************************************************)
(* The claims, about channel Trk                                           *)
(***************************************************************************)
Registered == sg_aptBtnPara[Trk] # NULL
St   == sg_atBtnSt[Trk]
Para == tBtnPara[sg_aptBtnPara[Trk]]
Res  == sg_atBtn[Trk]
Polled == h.op = "poll"
PressedLvl(u8Lvl) == u8Lvl # Para.u8NormalSt

\* C1: debounce time D > 0, starting in Idle: while the samples of the pressed
\* level span less than D no poll returns BTN_PRESSED_EVT and no press is
\* confirmed; a sample of the normal level that follows leaves the FSM in Idle,
\* or in PressPre when it was taken in the one-poll Press state, and then the
\* next sample of the normal level leaves it in Idle.
C1_ShortPressIgnored ==
    Registered =>
        /\ h.run \in {1, 2, 3} =>
              /\ Para.u16DebounceTm > 0
              /\ Res.u8Evt # BTN_PRESSED_EVT
              /\ St.u8BtnSt # BTN_PRESSED_EVT
        /\ h.run = 1 => St.u8BtnSt \in {BTN_PRESS_EVT, BTN_PRESS_PRE_ST}
        /\ h.run = 2 => St.u8BtnSt \in {BTN_PRESS_PRE_ST, BTN_IDLE_ST}
        /\ h.run = 3 => St.u8BtnSt = BTN_IDLE_ST

\* C1 witness: a press shorter than D was released and the FSM is back in Idle
C1_Witness ==
    Registered /\ h.run = 3 /\ Polled /\ h.st = BTN_PRESS_PRE_ST /\ St.u8BtnSt = BTN_IDLE_ST

\* C2: debounce time 0, FSM in Idle, the level was normal on the poll before: the
\* poll that samples the pressed level returns BTN_PRESSED_EVT itself.
C2_PressedOnSameTick ==
    ( /\ Registered /\ Polled
      /\ Para.u16DebounceTm = 0
      /\ h.st = BTN_IDLE_ST /\ h.pnorm /\ PressedLvl(h.lvl) )
    => Res.u8Evt = BTN_PRESSED_EVT

\* C3: after the poll that returned BTN_PRESSED_EVT, with every later sample the
\* pressed level: no BTN_LONG_PRESSED_EVT before a sample taken when the
\* long-press time has passed; that sample decides the long press, the next poll
\* returns BTN_LONG_PRESSED_EVT, and no later poll returns it again.
C3_LongPressedOnce ==
    (Registered /\ h.heldP) =>
        /\ h.lp <= 1
        /\ h.lp = 1 => St.u8BtnSt = BTN_HOLDING_ST
        /\ h.late = 0 => h.lp = 0
        /\ h.late = 1 => (h.lp = 0 /\ St.u8BtnSt = BTN_LONG_PRESSED_EVT)
        /\ h.late = 2 => h.lp = 1

\* C4: a release event is BTN_L_RELEASED_EVT only if BTN_LONG_PRESSED_EVT was
\* returned since the last BTN_PRESSED_EVT, and BTN_S_RELEASED_EVT only if it was
\* not; a release confirmed before the long-press time has passed since the
\* press was confirmed is a short release.
C4_ReleaseKind ==
    Registered =>
        /\ (Polled /\ Res.u8Evt = BTN_L_RELEASED_EVT) => h.lp >= 1
        /\ (Polled /\ Res.u8Evt = BTN_S_RELEASED_EVT) => h.lp = 0
        /\ St.u8BtnSt = BTN_L_RELEASED_EVT =>
              (h.cyc /\ h.lp >= 1 /\ h.sinceP >= Para.u16LongPressTm)
        /\ St.u8BtnSt = BTN_S_RELEASED_EVT => (h.cyc /\ h.lp = 0)
        /\ (St.u8BtnSt \in {BTN_S_RELEASED_EVT, BTN_L_RELEASED_EVT}
            /\ h.sinceP < Para.u16LongPressTm) => St.u8BtnSt = BTN_S_RELEASED_EVT

\* C4 witness: a poll returned BTN_L_RELEASED_EVT after a long press
C4_Witness ==
    Registered /\ Polled /\ Res.u8Evt = BTN_L_RELEASED_EVT /\ h.lp = 1
    /\ Para.u16LongPressTm > 0

\* C5, as claimed: the five polls return no Pressed (FSM on its way to PressPre);
\* (Pressed, PressAft); (LongPressed, Holding); None with the FSM entering the
\* long release wait; (LongReleased, Idle).
C5_ScenarioAsClaimed ==
    /\ h.scn = 1 => ( /\ Res.u8Evt # BTN_PRESSED_EVT
                      /\ St.u8BtnSt \in {BTN_PRESS_EVT, BTN_PRESS_PRE_ST} )
    /\ h.scn = 2 => (Res.u8Evt = BTN_PRESSED_EVT /\ Res.u8State = BTN_PRESS_AFT_ST)
    /\ h.scn = 3 => (Res.u8Evt = BTN_LONG_PRESSED_EVT /\ Res.u8State = BTN_HOLDING_ST)
    /\ h.scn = 4 => ( /\ Res.u8Evt = BTN_NONE_EVT
                      /\ St.u8BtnSt \in {BTN_L_RELEASE_EVT, BTN_LONG_RELEASE_ST} )
    /\ h.scn = 5 => (Res.u8Evt = BTN_L_RELEASED_EVT /\ Res.u8State = BTN_IDLE_ST)

\* C5, amended: the five polls return (None, Idle) with the FSM entering Press;
\* event None with the FSM settling to PressPre; (None, Idle) with the FSM entering
\* Pressed; (Pressed, PressAft) with the FSM in PressAft; (None, PressAft) with
\* the FSM entering ShortRelease.
C5_ScenarioAsCoded ==
    /\ h.scn = 1 => ( /\ Res = [u8Evt |-> BTN_NONE_EVT, u8State |-> BTN_IDLE_ST]
                      /\ St.u8BtnSt = BTN_PRESS_EVT )
    /\ h.scn = 2 => ( /\ Res.u8Evt = BTN_NONE_EVT
                      /\ St.u8BtnSt = BTN_PRESS_PRE_ST )
    /\ h.scn = 3 => ( /\ Res = [u8Evt |-> BTN_NONE_EVT, u8State |-> BTN_IDLE_ST]
                      /\ St.u8BtnSt = BTN_PRESSED_EVT )
    /\ h.scn = 4 => ( /\ Res = [u8Evt |-> BTN_PRESSED_EVT, u8State |-> BTN_PRESS_AFT_ST]
                      /\ St.u8BtnSt = BTN_PRESS_AFT_ST )
    /\ h.scn = 5 => ( /\ Res = [u8Evt |-> BTN_NONE_EVT, u8State |-> BTN_PRESS_AFT_ST]
                      /\ St.u8BtnSt = BTN_S_RELEASE_EVT )

\* C5 witness: the five polls of the scenario have been made
C5_Witness == h.scn = 5 /\ tm = DemoTm[5]

\* C6: a poll that tests a timer when the time source has rolled over since the
\* anchor (now < anchor) compares 65535 - anchor + now + 1 with the duration.
C6_WrapElapsed ==
    (Registered /\ Polled /\ h.fresh) =>
        /\ (h.st \in {BTN_PRESS_PRE_ST, BTN_SHORT_RELEASE_ST, BTN_LONG_RELEASE_ST}
            /\ tm < St.u16DebounceOldTm)
           => (h.tmOut <=> ((UINT16_MOD - 1) - St.u16DebounceOldTm + tm + 1
                            >= Para.u16DebounceTm))
        /\ (h.st = BTN_PRESS_AFT_ST /\ tm < St.u16LongPressOldTm)
           => (h.tmOut <=> ((UINT16_MOD - 1) - St.u16LongPressOldTm + tm + 1
                            >= Para.u16LongPressTm))

\* C7, as claimed: the second of two polls with the same timestamp and level
\* leaves the FSM state as the first left it and returns BTN_NONE_EVT.
C7_Idempotent ==
    (Registered /\ Polled /\ h.seq = 2) =>
        (St.u8BtnSt = h.st /\ Res.u8Evt = BTN_NONE_EVT)

\* C7, amended: it does so when the first of the two polls left the FSM state as
\* it found it.
C7_IdempotentOnceSettled ==
    (Registered /\ Polled /\ h.seq = 2 /\ h.stay1) =>
        (St.u8BtnSt = h.st /\ Res.u8Evt = BTN_NONE_EVT)

\* C7 witness: two polls with the same timestamp and level in Holding
C7_Witness ==
    Registered /\ Polled /\ h.seq = 2 /\ h.stay1 /\ h.st = BTN_HOLDING_ST

\* C8: a poll of a channel that is not enabled returns SUCCESS with
\* (BTN_NONE_EVT, BTN_DIS_ST) and leaves the running status as it was.
C8_DisabledPoll ==
    [][ h'.op = "dis" =>
          /\ sg_atBtnSt'[Trk] = sg_atBtnSt[Trk]
          /\ sg_atBtn'[Trk] = [u8Evt |-> BTN_NONE_EVT, u8State |-> BTN_DIS_ST]
          /\ u8Ret' = SUCCESS ]_vars

\* C8 witness: a disabled channel was polled in the middle of a press
C8_Witness ==
    /\ h.op = "dis" /\ h.st = BTN_PRESS_AFT_ST
    /\ St.u8BtnSt = BTN_PRESS_AFT_ST
    /\ St.u16LongPressOldTm # 0 /\ St.u16DebounceOldTm # 0

\* C9: Btn_Func_En_Dis sets the enable flag and puts the FSM in Idle; from
\* there no release event is pending before a new press is confirmed, and a
\* press is confirmed only when the debounce time has passed since Idle was left.
C9_EnDisResets ==
    Registered =>
        /\ h.op = "endis" => (St.u8BtnSt = BTN_IDLE_ST /\ Para.u8BtnEn = h.lvl)
        /\ ~h.cyc => BeforePressed(St.u8BtnSt)
        /\ St.u8BtnSt = BTN_PRESSED_EVT => h.since >= Para.u16DebounceTm

\* C9 witness: the channel was enabled again while the FSM was in Holding
C9_Witness ==
    /\ Registered /\ h.op = "endis" /\ h.st = BTN_HOLDING_ST
    /\ h.lvl = BTN_FUNC_ENABLE /\ St.u8BtnSt = BTN_IDLE_ST

\* C10: the state a successful poll reports is Idle, PressAft, Holding or Disabled.
C10_ReportedStateStable ==
    (Registered /\ h.op \in {"poll", "dis"}) =>
        Res.u8State \in {BTN_IDLE_ST, BTN_PRESS_AFT_ST, BTN_HOLDING_ST, BTN_DIS_ST}

\* C11: the event a successful poll reports is None, Pressed, LongPressed,
\* ShortReleased or LongReleased, never one of the three internal codes.
C11_ReportedEvent ==
    (Registered /\ h.op \in {"poll", "dis"}) =>
        /\ u8Ret = SUCCESS
        /\ Res.u8Evt \in {BTN_NONE_EVT, BTN_PRESSED_EVT, BTN_LONG_PRESSED_EVT,
                          BTN_S_RELEASED_EVT, BTN_L_RELEASED_EVT}

\* C11 witness: a poll found the FSM in the internal LongRelease transient
C11_Witness ==
    Registered /\ Polled /\ h.st = BTN_L_RELEASE_EVT /\ Res.u8Evt = BTN_NONE_EVT

Transients == BTN_PRESS_EVT .. BTN_L_RELEASED_EVT

\* the returned state is the next state of the row of the state the poll found
RowNextReported ==
    \A u8Sit \in 0 .. (BTN_TRG_NUM - 1) :
        Res.u8State = cg_aau8StateMachine[h.st + 1][u8Sit + 1]

\* C12, as claimed: a poll that finds the FSM in one of the seven transient
\* states returns that state's code as the event and the row's next state as
\* the state.
C12_TransientOutput ==
    (Registered /\ Polled /\ h.st \in Transients) =>
        (Res.u8Evt = h.st /\ RowNextReported)

\* C12, amended: it returns the row's next state as the state; the event is the
\* state's code for Pressed, LongPressed, ShortReleased and LongReleased and
\* BTN_NONE_EVT for Press, ShortRelease and LongRelease.
C12_TransientOutputAsCoded ==
    (Registered /\ Polled /\ h.st \in Transients) =>
        /\ RowNextReported
        /\ h.st >= BTN_PRESSED_EVT => Res.u8Evt = h.st
        /\ h.st < BTN_PRESSED_EVT => Res.u8Evt = BTN_NONE_EVT

\* C12 witness: a poll found the FSM in the ShortReleased transient
C12_Witness ==
    /\ Registered /\ Polled /\ h.st = BTN_S_RELEASED_EVT
    /\ Res = [u8Evt |-> BTN_S_RELEASED_EVT, u8State |-> BTN_IDLE_ST]

\* C13: a poll that finds the FSM in a debounce-wait or stable state returns
\* BTN_NONE_EVT; the state is the FSM state for a stable state and the parent
\* phase for a debounce-wait state (PressPre as Idle, ShortRelease wait as
\* PressAft, LongRelease wait as Holding).
C13_SettledOutput ==
    (Registered /\ Polled /\ h.st >= BTN_PRESS_PRE_ST) =>
        /\ Res.u8Evt = BTN_NONE_EVT
        /\ h.st \in {BTN_IDLE_ST, BTN_PRESS_AFT_ST, BTN_HOLDING_ST} => Res.u8State = h.st
        /\ h.st = BTN_PRESS_PRE_ST => Res.u8State = BTN_IDLE_ST
        /\ h.st = BTN_SHORT_RELEASE_ST => Res.u8State = BTN_PRESS_AFT_ST
        /\ h.st = BTN_LONG_RELEASE_ST => Res.u8State = BTN_HOLDING_ST

\* C13 witness: a poll found the FSM waiting for the debounce of a long release
C13_Witness ==
    /\ Registered /\ Polled /\ h.st = BTN_LONG_RELEASE_ST
    /\ Res = [u8Evt |-> BTN_NONE_EVT, u8State |-> BTN_HOLDING_ST]

\* a step that is a call of the API (the time source does not advance in it)
ProcessStep == call'.op = "process" /\ tm' = tm
InitStep    == call'.op = "init" /\ tm' = tm

\* C14: Btn_Channel_Process with channel number 0 or above MAX_BTN_CH returns
\* BTN_ERROR and changes no running status, no configuration and no result.
C14_BadChannelPoll ==
    [][ (ProcessStep /\ call'.ch \notin Chs) =>
          /\ u8Ret' = BTN_ERROR
          /\ UNCHANGED <<sg_aptBtnPara, sg_atBtnSt, tBtnPara, sg_atBtn>> ]_vars

\* C14 witness: channel number 0 was polled while channel Trk was in Holding
C14_Witness ==
    /\ call.op = "process" /\ call.ch = 0 /\ u8Ret = BTN_ERROR
    /\ Registered /\ St.u8BtnSt = BTN_HOLDING_ST

\* C15: Btn_Channel_Process for a channel in range that is not registered
\* returns BTN_ERROR and changes nothing.
C15_UnregisteredPoll ==
    [][ (ProcessStep /\ call'.ch \in Chs /\ sg_aptBtnPara[call'.ch] = NULL) =>
          /\ u8Ret' = BTN_ERROR
          /\ UNCHANGED <<sg_aptBtnPara, sg_atBtnSt, tBtnPara, sg_atBtn>> ]_vars

\* C16: when the level source returns BTN_ERROR for an enabled channel the
\* poll returns BTN_ERROR and leaves the running status, the configuration and
\* the result as they were, so the FSM goes on as if the poll had not been made.
C16_LevelError ==
    [][ (ProcessStep /\ call'.ch = Trk /\ h'.op = "err") =>
          /\ u8Ret' = BTN_ERROR
          /\ UNCHANGED <<sg_aptBtnPara, sg_atBtnSt, tBtnPara, sg_atBtn>> ]_vars

\* C16 witness: the level read failed while a release was being debounced
C16_Witness ==
    /\ Registered /\ h.op = "err" /\ h.st = BTN_SHORT_RELEASE_ST /\ u8Ret = BTN_ERROR
    /\ St.u8BtnSt = BTN_SHORT_RELEASE_ST /\ St.u16DebounceOldTm # 0

\* C17: Btn_Channel_Init with channel number 0 or above MAX_BTN_CH or with a
\* NULL pointer returns BTN_ERROR and changes neither the registry nor the
\* running status; otherwise it returns SUCCESS, stores the pointer, puts that
\* channel's FSM in Idle and leaves every other channel as it was.
C17_ChannelInit ==
    [][ InitStep =>
          /\ tBtnPara' = tBtnPara /\ sg_atBtn' = sg_atBtn
          /\ IF call'.ch \notin Chs \/ call'.arg = NULL
             THEN /\ u8Ret' = BTN_ERROR
                  /\ UNCHANGED <<sg_aptBtnPara, sg_atBtnSt>>
             ELSE /\ u8Ret' = SUCCESS
                  /\ sg_aptBtnPara'[call'.ch] = call'.arg
                  /\ sg_atBtnSt'[call'.ch].u8BtnSt = BTN_IDLE_ST
                  /\ \A c \in Chs \ {call'.ch} :
                        /\ sg_aptBtnPara'[c] = sg_aptBtnPara[c]
                        /\ sg_atBtnSt'[c] = sg_atBtnSt[c] ]_vars

\* C17 witness: a registration with a NULL pointer was refused in mid-press
C17_Witness ==
    /\ call = [op |-> "init", ch |-> Trk, arg |-> NULL] /\ u8Ret = BTN_ERROR
    /\ Registered /\ St.u8BtnSt = BTN_PRESS_AFT_ST

\* C18: after a successful Btn_Channel_Init the channel's running status is
\* Idle with both anchors 0, also when the channel had been polled before.
C18_InitZeroAnchors ==
    (call.op = "init" /\ u8Ret = SUCCESS) =>
        sg_atBtnSt[call.ch] = [u16DebounceOldTm |-> 0, u16LongPressOldTm |-> 0,
                               u8BtnSt |-> BTN_IDLE_ST]

\* C19: with debounce time 0 the FSM is never in a debounce-wait state.
C19_NoDebounceWait ==
    (Registered /\ Para.u16DebounceTm = 0) =>
        St.u8BtnSt \notin {BTN_PRESS_PRE_ST, BTN_SHORT_RELEASE_ST, BTN_LONG_RELEASE_ST}

\* C20: the FSM state of every registered channel is one of the 13 states, the
\* situation index is in 0..3 and every cell of the table is one of the 13
\* states.
C20_StateInTable ==
    /\ \A c \in Chs :
          sg_aptBtnPara[c] # NULL => sg_atBtnSt[c].u8BtnSt \in 0 .. (BTN_STATE_NUM - 1)
    /\ \A l \in {BTN_STATE_0, BTN_STATE_1}, n \in NormalSts, b \in BOOLEAN :
          Situation(l, [u8NormalSt |-> n], b) \in 0 .. (BTN_TRG_NUM - 1)
    /\ \A u8St \in 0 .. (BTN_STATE_NUM - 1), u8Sit \in 0 .. (BTN_TRG_NUM - 1) :
          Table(u8St, u8Sit) \in 0 .. (BTN_STATE_NUM - 1)

\* C20 witness: two channels registered, one just polled in its last transient
C20_Witness ==
    /\ Registered /\ sg_aptBtnPara[Sibling] # NULL
    /\ Polled /\ h.st = BTN_L_RELEASED_EVT /\ St.u8BtnSt = BTN_IDLE_ST

\* a step that is a call of Btn_General_Init or Btn_SM_Easy_Init
GeneralStep == call'.op \in {"general", "easy"} /\ tm' = tm

\* C21: a Btn_Channel_Process call for channel i leaves the running status and
\* the result of every other channel, the registry, every configuration and
\* the registered time and level source as they were; so what the polls of
\* channel j find and return does not depend on the polls of channel i.
C21_PollFrame ==
    [][ ProcessStep =>
          /\ \A c \in Chs \ {call'.ch} :
                sg_atBtnSt'[c] = sg_atBtnSt[c] /\ sg_atBtn'[c] = sg_atBtn[c]
          /\ UNCHANGED <<sg_aptBtnPara, tBtnPara, sg_pfGetTm, sg_pfGetBtnSt>> ]_vars

\* C21 witness: channel Sibling was polled out of Idle while channel Trk was
\* waiting for the debounce of a press
C21_Witness ==
    /\ call.op = "process" /\ call.ch = Sibling /\ u8Ret = SUCCESS
    /\ sg_atBtnSt[Sibling].u8BtnSt = BTN_PRESS_EVT
    /\ St.u8BtnSt = BTN_PRESS_PRE_ST /\ St.u16DebounceOldTm # 0

\* C22: once both functions are registered, a Btn_General_Init or
\* Btn_SM_Easy_Init call with non-NULL functions returns SUCCESS and leaves the
\* registered functions as they were.
C22_SourcesFixed ==
    [][ ( /\ GeneralStep
          /\ sg_pfGetTm # NULL /\ sg_pfGetBtnSt # NULL
          /\ call'.pfGetTm # NULL /\ call'.pfGetBtnSt # NULL )
        => /\ u8Ret' = SUCCESS
           /\ UNCHANGED <<sg_pfGetTm, sg_pfGetBtnSt>> ]_vars

\* C22 witness: Btn_SM_Easy_Init was called with two functions that are not the
\* registered ones
C22_Witness ==
    /\ call.op = "easy" /\ u8Ret = SUCCESS
    /\ sg_pfGetTm # NULL /\ sg_pfGetBtnSt # NULL
    /\ call.pfGetTm \notin {NULL, sg_pfGetTm}
    /\ call.pfGetBtnSt \notin {NULL, sg_pfGetBtnSt}

\* a step that is a successful poll of channel Trk, enabled
TrkPollStep == ProcessStep /\ call'.ch = Trk /\ h'.op = "poll"

Waits   == {BTN_PRESS_PRE_ST, BTN_SHORT_RELEASE_ST, BTN_LONG_RELEASE_ST}
Stables == {BTN_IDLE_ST, BTN_PRESS_AFT_ST, BTN_HOLDING_ST}
Reported == BTN_PRESSED_EVT .. BTN_L_RELEASED_EVT

\* C23: between resets the events other than BTN_NONE_EVT come in the order
\* Pressed, at most one LongPressed, one release event: S_RELEASED when no
\* LongPressed came, L_RELEASED when it did; no release event without a
\* Pressed before it and no second Pressed before the release event.
C23_EventOrder ==
    [][ TrkPollStep =>
          LET u8Evt == sg_atBtn'[Trk].u8Evt
          IN  /\ u8Evt = BTN_PRESSED_EVT => ~h.cyc
              /\ u8Evt = BTN_LONG_PRESSED_EVT => (h.cyc /\ h.lp = 0)
              /\ u8Evt = BTN_S_RELEASED_EVT => (h.cyc /\ h.lp = 0)
              /\ u8Evt = BTN_L_RELEASED_EVT => (h.cyc /\ h.lp = 1) ]_vars

\* C23 witness: a press cycle without long press ended with BTN_S_RELEASED_EVT
C23_Witness ==
    /\ Registered /\ Polled /\ Res.u8Evt = BTN_S_RELEASED_EVT
    /\ ~h.cyc /\ h.lp = 0 /\ St.u8BtnSt = BTN_IDLE_ST /\ Para.u16DebounceTm > 0

\* C24: a successful poll of an enabled channel leaves the state
\* table[state][situation], situation = (level # normal ? 1 : 0) +
\* (timer ? 2 : 0), where timer is the test of line 406 in the three
\* debounce-wait states, the test of line 413 in PressAft and false elsewhere.
C24_StateAdvance ==
    [][ TrkPollStep =>
          LET u8St  == St.u8BtnSt
              timer == IF u8St \in Waits
                       THEN TmDiff(tm, St.u16DebounceOldTm) >= Para.u16DebounceTm
                       ELSE IF u8St = BTN_PRESS_AFT_ST
                       THEN TmDiff(tm, St.u16LongPressOldTm) >= Para.u16LongPressTm
                       ELSE FALSE
              u8Sit == (IF h'.lvl # Para.u8NormalSt THEN 1 ELSE 0) + (IF timer THEN 2 ELSE 0)
          IN  sg_atBtnSt'[Trk].u8BtnSt = cg_aau8StateMachine[u8St + 1][u8Sit + 1] ]_vars

\* C24 witness: a poll in PressAft sampled the pressed level with the
\* long-press timer elapsed and left the FSM in LongPressed
C24_Witness ==
    /\ Registered /\ Polled /\ h.st = BTN_PRESS_AFT_ST /\ h.tmOut /\ PressedLvl(h.lvl)
    /\ St.u8BtnSt = BTN_LONG_PRESSED_EVT /\ Para.u16LongPressTm > 0

\* C25: every row of a transient state holds one next state; a poll that
\* finds the FSM in a transient state leaves it in a state that is not
\* transient; a poll that finds it in Pressed, LongPressed, ShortReleased or
\* LongReleased returns that event, and the poll after a poll that returned an
\* event returns BTN_NONE_EVT, whatever it samples.
C25_TransientPulse ==
    [][ TrkPollStep =>
              /\ St.u8BtnSt \in Transients =>
                    /\ \A u8Sit \in 0 .. (BTN_TRG_NUM - 1) :
                          Table(St.u8BtnSt, u8Sit) = Table(St.u8BtnSt, 0)
                    /\ sg_atBtnSt'[Trk].u8BtnSt \notin Transients
              /\ St.u8BtnSt \in Reported => sg_atBtn'[Trk].u8Evt = St.u8BtnSt
              /\ (Polled /\ Res.u8Evt \in Reported) => sg_atBtn'[Trk].u8Evt = BTN_NONE_EVT
      ]_vars

\* C25 witness: the poll after the one that returned BTN_LONG_PRESSED_EVT
\* sampled the normal level and returned BTN_NONE_EVT
C25_Witness ==
    /\ Registered /\ Polled /\ h.st = BTN_HOLDING_ST /\ h.lp = 1 /\ h.late = 0
    /\ ~PressedLvl(h.lvl) /\ Res.u8Evt = BTN_NONE_EVT /\ St.u8BtnSt = BTN_L_RELEASE_EVT

\* the event a debounce wait confirms
WaitEvt(u8St) ==
    CASE u8St = BTN_PRESS_PRE_ST     -> BTN_PRESSED_EVT
      [] u8St = BTN_SHORT_RELEASE_ST -> BTN_S_RELEASED_EVT
      [] u8St = BTN_LONG_RELEASE_ST  -> BTN_L_RELEASED_EVT

\* C26: a poll in a debounce-wait state returns BTN_NONE_EVT; it leaves the
\* state as it is when the level that started the wait is sampled again and
\* less than the debounce time has passed since the anchor; it falls back
\* (PressPre to Idle, ShortRelease wait to PressAft, LongRelease wait to
\* Holding) when the level has reverted; it moves to the confirmed event only
\* when the level is still there and the debounce time has passed.
C26_DebounceWait ==
    [][ (TrkPollStep /\ St.u8BtnSt \in Waits) =>
          LET u8St   == St.u8BtnSt
              u8New  == sg_atBtnSt'[Trk].u8BtnSt
              still  == IF u8St = BTN_PRESS_PRE_ST
                        THEN h'.lvl # Para.u8NormalSt ELSE h'.lvl = Para.u8NormalSt
              passed == (tm - St.u16DebounceOldTm) % UINT16_MOD
          IN  /\ sg_atBtn'[Trk].u8Evt = BTN_NONE_EVT
              /\ (still /\ passed < Para.u16DebounceTm) => u8New = u8St
              /\ ~still => u8New = u8St + BTN_GO_BACK_OFFSET
              /\ (still /\ u8New # u8St) =>
                    (u8New = WaitEvt(u8St) /\ passed >= Para.u16DebounceTm) ]_vars

\* C26 witness: a release bounce in PressAft that ended before the debounce
\* time: the poll in the short release wait sampled the pressed level again
C26_Witness ==
    /\ Registered /\ Polled /\ h.st = BTN_SHORT_RELEASE_ST /\ PressedLvl(h.lvl)
    /\ ~h.tmOut /\ Para.u16DebounceTm > 0
    /\ St.u8BtnSt = BTN_PRESS_AFT_ST /\ Res.u8Evt = BTN_NONE_EVT /\ h.cyc

\* C27: the long-press anchor is the timestamp of the poll that returned
\* BTN_PRESSED_EVT until the release event, whatever bounces come in between,
\* and the long press is decided only when the long-press time has passed
\* since that poll.
C27_LongPressFromPressed ==
    (Registered /\ h.cyc) =>
        /\ St.u16LongPressOldTm = h.tmP
        /\ (St.u8BtnSt = BTN_LONG_PRESSED_EVT \/ h.lp > 0) =>
              h.sinceP >= Para.u16LongPressTm

\* C27 witness: the long press was decided after a release bounce
C27_Witness ==
    /\ Registered /\ Polled /\ h.cyc /\ ~h.heldP /\ Para.u16LongPressTm > 0
    /\ St.u8BtnSt = BTN_LONG_PRESSED_EVT /\ St.u16DebounceOldTm # St.u16LongPressOldTm

\* C28: in a debounce-wait state the debounce anchor is the timestamp of the
\* poll that found the FSM in the transient state before it; in PressAft the
\* long-press anchor is the timestamp of the last poll that returned
\* BTN_PRESSED_EVT.
C28_FreshAnchors ==
    Registered =>
        /\ St.u8BtnSt \in Waits => (h.tmD # NoTm /\ St.u16DebounceOldTm = h.tmD)
        /\ St.u8BtnSt = BTN_PRESS_AFT_ST => (h.tmP # NoTm /\ St.u16LongPressOldTm = h.tmP)

\* C28 witness: a second press after a reset by Btn_Func_En_Dis in mid-press;
\* the anchors of the first press are left behind
C28_Witness ==
    /\ Registered /\ Polled /\ St.u8BtnSt = BTN_PRESS_PRE_ST
    /\ h.tmP = NoTm /\ St.u16LongPressOldTm # 0 /\ St.u16DebounceOldTm # St.u16LongPressOldTm

\* C29: a poll in a stable state returns BTN_NONE_EVT and that state.  Idle
\* is kept by a sample of the normal level, Holding by a sample of the pressed
\* level whatever the time, PressAft by a sample of the pressed level while
\* less than the long-press time has passed since the anchor; any other sample
\* moves to the transient state of the change.
C29_StableHeld ==
    [][ (TrkPollStep /\ St.u8BtnSt \in Stables) =>
          LET u8St    == St.u8BtnSt
              u8New   == sg_atBtnSt'[Trk].u8BtnSt
              pressed == h'.lvl # Para.u8NormalSt
              passed  == (tm - St.u16LongPressOldTm) % UINT16_MOD
          IN  /\ sg_atBtn'[Trk] = [u8Evt |-> BTN_NONE_EVT, u8State |-> u8St]
              /\ u8St = BTN_IDLE_ST =>
                    u8New = IF pressed THEN BTN_PRESS_EVT ELSE BTN_IDLE_ST
              /\ u8St = BTN_HOLDING_ST =>
                    u8New = IF pressed THEN BTN_HOLDING_ST ELSE BTN_L_RELEASE_EVT
              /\ u8St = BTN_PRESS_AFT_ST =>
                    u8New = IF ~pressed THEN BTN_S_RELEASE_EVT
                            ELSE IF passed < Para.u16LongPressTm THEN BTN_PRESS_AFT_ST
                            ELSE BTN_LONG_PRESSED_EVT ]_vars

\* C30: when the channel is polled forever, every sample is the pressed level
\* and the time source keeps advancing, a poll returns BTN_PRESSED_EVT and a
\* later poll returns BTN_LONG_PRESSED_EVT, for every debounce and long-press
\* time, also when an anchor lies just before the rollover.
C30_PressDetected ==
    /\ <>(Res.u8Evt = BTN_PRESSED_EVT)
    /\ (Res.u8Evt = BTN_PRESSED_EVT) ~> (Res.u8Evt = BTN_LONG_PRESSED_EVT)

\* C31: an enabled channel polled forever while the time source keeps
\* advancing: when from some poll on every sample is the normal level, the FSM
\* reaches Idle and stays there, whatever state it was in.
C31_ReturnToIdle ==
    <>[](h.op = "poll" /\ h.lvl = Para.u8NormalSt) => <>[](St.u8BtnSt = BTN_IDLE_ST)

\* the pin of the port the demo wires to a channel
BtnPin(u8Ch) == CASE u8Ch = 1 -> 5 [] u8Ch = 2 -> 4 [] u8Ch = 3 -> 12

\* C32: Btn_St_Get returns BTN_ERROR only for a channel number outside 1..3; for
\* channels 1, 2 and 3 it returns the binary level (0 or 1) read from the
\* channel's input pin.
C32_LevelOfValidChannel ==
    call.op = "get" =>
        /\ u8Ret = BTN_ERROR => call.ch \notin 1 .. 3
        /\ call.ch \in 1 .. 3 => u8Ret = PinLow(call.arg, BtnPin(call.ch))

\* C33: Btn_General_Init returns BTN_ERROR when the time source or the level
\* source passed is NULL, and only then; a call that returns BTN_ERROR leaves
\* the registered time source and the registered level source as they were.
C33_FailedInitRegistersNothing ==
    [][ (GeneralStep /\ call'.op = "general") =>
          /\ u8Ret' = BTN_ERROR <=> (NULL = call'.pfGetTm \/ NULL = call'.pfGetBtnSt)
          /\ u8Ret' = BTN_ERROR =>
                (sg_pfGetTm' = sg_pfGetTm /\ sg_pfGetBtnSt' = sg_pfGetBtnSt) ]_vars

\* a step that is a call of Btn_Func_En_Dis
EnDisStep == call'.op = "endis" /\ tm' = tm

\* C34: Btn_Func_En_Dis called with channel number 0, a number above
\* MAX_BTN_CH or the number of a channel not registered changes no
\* configuration and no running status, and accesses no element outside the
\* registry (it returns).
C34_EnDisBadChannel ==
    [][ ( /\ EnDisStep
          /\ (call'.ch \in Chs => sg_aptBtnPara[call'.ch] = NULL) )
        => /\ tBtnPara' = tBtnPara
           /\ sg_atBtnSt' = sg_atBtnSt
           /\ (call'.ch \notin Chs => EnDisSlot(call'.ch) \in Chs)
           /\ u8Ret' # TRAP ]_vars

\* C35: Btn_Channel_Process reads the registry arrays only at the elements of
\* channels 1..MAX_BTN_CH (indices 0..MAX_BTN_CH-1): called with channel number
\* 0 or a number above MAX_BTN_CH it reads no element.
C35_LoadsInRange ==
    call.op = "process" => call.arg \in Chs

\* C36: Btn_Func_En_Dis(i, flag) leaves, for every other registered channel j,
\* the enable flag that Btn_Channel_Process reads for j and the running status
\* of j as they were, also when every channel was registered with the address
\* of the same T_BTN_PARA object.
C36_EnDisFrame ==
    [][ EnDisStep =>
          \A j \in Chs \ {call'.ch} :
              sg_aptBtnPara[j] # NULL =>
                  /\ tBtnPara'[sg_aptBtnPara'[j]].u8BtnEn = tBtnPara[sg_aptBtnPara[j]].u8BtnEn
                  /\ sg_atBtnSt'[j] = sg_atBtnSt[j] ]_vars

\* C37: a Btn_Channel_Process call that returns BTN_ERROR (channel number out
\* of range, or level read error) writes nothing to the result: u8Evt and
\* u8State are those of the poll before, so a caller that does not look at the
\* return value sees the event of that poll again.
C37_ErrorKeepsResult ==
    [][ (ProcessStep /\ u8Ret' = BTN_ERROR) => sg_atBtn' = sg_atBtn ]_vars

\* C37 witness: the poll after the one that returned BTN_PRESSED_EVT failed to
\* read the level, and the result still holds BTN_PRESSED_EVT
C37_Witness ==
    /\ call.op = "process" /\ call.ch = Trk /\ u8Ret = BTN_ERROR
    /\ h.op = "err" /\ h.st = BTN_PRESS_AFT_ST
    /\ Res.u8Evt = BTN_PRESSED_EVT

\* C38: two channels with the same durations polled at the same times, one
\* with normal level 0 sampling x, the other with normal level 1 sampling
\* 1 - x: every poll returns the same event and state for both, and leaves
\* both state machines in the same state.
C38_PolaritySymmetry ==
    (call.op = "process" /\ call.ch = Sibling) =>
        /\ sg_atBtn[Sibling] = sg_atBtn[Trk]
        /\ sg_atBtnSt[Sibling].u8BtnSt = sg_atBtnSt[Trk].u8BtnSt

\* C38 witness: both channels, polled with mirrored samples, have just
\* returned BTN_LONG_PRESSED_EVT
C38_Witness ==
    /\ call.op = "process" /\ call.ch = Sibling
    /\ tBtnPara[sg_aptBtnPara[Sibling]].u8NormalSt = BTN_NORMAL_1
    /\ Para.u8NormalSt = BTN_NORMAL_0
    /\ Para.u16DebounceTm > 0 /\ Para.u16LongPressTm > 0
    /\ sg_atBtn[Sibling].u8Evt = BTN_LONG_PRESSED_EVT
    /\ Res.u8Evt = BTN_LONG_PRESSED_EVT

\* C39: Btn_SM_Easy_Init with a time source and a level source that are not
\* NULL returns SUCCESS and leaves every channel 1..MAX_BTN_CH registered with
\* a configuration record of its own (channel number = the channel, debounce
\* time 50, long-press time 1000, normal level 0, enabled) and with the FSM in
\* Idle; when its general init fails it returns BTN_ERROR and registers no
\* channel.
C39_EasyInit ==
    [][ (GeneralStep /\ call'.op = "easy") =>
          IF NULL = call'.pfGetTm \/ NULL = call'.pfGetBtnSt
          THEN /\ u8Ret' = BTN_ERROR
               /\ sg_aptBtnPara' = sg_aptBtnPara
               /\ sg_atBtnSt' = sg_atBtnSt
               /\ tBtnPara' = tBtnPara
          ELSE /\ u8Ret' = SUCCESS
               /\ \A c \in Chs :
                     /\ sg_aptBtnPara'[c] # NULL
                     /\ \A d \in Chs \ {c} : sg_aptBtnPara'[d] # sg_aptBtnPara'[c]
                     /\ tBtnPara'[sg_aptBtnPara'[c]] =
                           [ u8Ch |-> c, u16DebounceTm |-> 50, u16LongPressTm |-> 1000,
                             u8NormalSt |-> 0, u8BtnEn |-> BTN_FUNC_ENABLE ]
                     /\ sg_atBtnSt'[c].u8BtnSt = BTN_IDLE_ST ]_vars

\* C39 witness: the easy init has succeeded after the caller had registered
\* channel Trk with its own object and polled it out of Idle; a later easy
\* init has failed and the channels are still registered
C39_Witness ==
    /\ call.op = "easy" /\ NULL = call.pfGetBtnSt /\ u8Ret = BTN_ERROR
    /\ \A c \in Chs : sg_aptBtnPara[c] = s_atBtnPara(c - 1)
    /\ St.u8BtnSt = BTN_IDLE_ST
    /\ h.op = "init" /\ h.st = BTN_PRESS_PRE_ST
====
